---- MODULE Spec2Model ----
(***************************************************************************)
(* Model of netlistx-rs, src/netlist.rs: the Netlist aggregate, built by   *)
(* new(), add_module, add_net and add_edge.                                *)
(*                                                                         *)
(* grph is petgraph's Graph<String, ()>: a vector of node weights (the     *)
(* labels; a node's index is its position) and a vector of directed edges  *)
(* (source index, target index); parallel edges and self-loops are kept.   *)
(* The fields num_pads, cost_model, net_weight, module_weight and          *)
(* module_fixed are set by new() and never written again by any operation  *)
(* of the file; they are left out.                                         *)
(*                                                                         *)
(* History variables (not fields of the struct):                           *)
(*   created_by  for each graph node, the operation that created it        *)
(*   calls       how many add_module / add_net calls have returned         *)
(*   connected   the <<net, module>> argument pairs of the add_edge calls  *)
(*               that inserted an edge                                     *)
(*   last        the most recent call: its name, arguments and the value   *)
(*               it returned to the caller                                 *)
(***************************************************************************)
EXTENDS Integers, Sequences, FiniteSets

VARIABLES grph, modules, nets, num_modules, num_nets,
          max_degree, max_net_degree,
          created_by, calls, connected, last

vars == <<grph, modules, nets, num_modules, num_nets,
          max_degree, max_net_degree,
          created_by, calls, connected, last>>

\* ---- bounds ----
MaxNodes == 3
MaxEdges == 2
Labels == {"a0", "a3", "x"}

\* ---- values ----
NoLabel == ""
Unit == "()"
None == 0

Range(s) == {s[i] : i \in DOMAIN s}

\* self.grph.node_indices().find(|i| self.grph[*i] == label):
\* the first node, in index order, whose weight is the label; None if none.
find_node(nodes, label) ==
    IF \E i \in DOMAIN nodes : nodes[i] = label
    THEN CHOOSE i \in DOMAIN nodes :
            /\ nodes[i] = label
            /\ \A j \in DOMAIN nodes : nodes[j] = label => i <= j
    ELSE None

\* Graph::add_node: push the weight, the new node gets the next index.
graph_add_node(g, label) ==
    [g EXCEPT !.nodes = Append(g.nodes, label)]

\* Mutant of graph_add_edge: the edge is pushed twice.
graph_add_edge_twice(g, a, b) ==
    [g EXCEPT !.edges = Append(Append(g.edges, <<a, b>>), <<a, b>>)]

\* Graph::add_edge: push the edge; no check for parallel edges or loops.
graph_add_edge(g, a, b) ==
    [g EXCEPT !.edges = Append(g.edges, <<a, b>>)]

node_count(g) == Len(g.nodes)
edge_count(g) == Len(g.edges)

\* ---- Netlist::new / Default::default ----
Init ==
    /\ grph = [nodes |-> <<>>, edges |-> <<>>]
    /\ modules = <<>>
    /\ nets = <<>>
    /\ num_modules = 0
    /\ num_nets = 0
    /\ max_degree = 0
    /\ max_net_degree = 0
    /\ created_by = <<>>
    /\ calls = [add_module |-> 0, add_net |-> 0]
    /\ connected = {}
    /\ last = [op |-> "new", net |-> NoLabel, module |-> NoLabel, ret |-> Unit]

\* Mutant of add_module: num_modules is not refreshed from modules.len().
add_module_stale_count(module) ==
    /\ node_count(grph) < MaxNodes
    /\ modules' = Append(modules, module)
    /\ grph' = graph_add_node(grph, module)
    /\ num_modules' = num_modules
    /\ created_by' = Append(created_by, "add_module")
    /\ calls' = [calls EXCEPT !.add_module = @ + 1]
    /\ last' = [op |-> "add_module", net |-> NoLabel, module |-> module, ret |-> Unit]
    /\ UNCHANGED <<nets, num_nets, max_degree, max_net_degree, connected>>

\* ---- Netlist::add_module ----
add_module(module) ==
    /\ node_count(grph) < MaxNodes
    /\ modules' = Append(modules, module)
    /\ grph' = graph_add_node(grph, module)
    /\ num_modules' = Len(modules')
    /\ created_by' = Append(created_by, "add_module")
    /\ calls' = [calls EXCEPT !.add_module = @ + 1]
    /\ last' = [op |-> "add_module", net |-> NoLabel, module |-> module, ret |-> Unit]
    /\ UNCHANGED <<nets, num_nets, max_degree, max_net_degree, connected>>

\* Mutant of add_net: the net is registered but no graph node is created.
add_net_no_node(net) ==
    /\ node_count(grph) < MaxNodes
    /\ nets' = Append(nets, net)
    /\ num_nets' = Len(nets')
    /\ calls' = [calls EXCEPT !.add_net = @ + 1]
    /\ last' = [op |-> "add_net", net |-> net, module |-> NoLabel, ret |-> Unit]
    /\ UNCHANGED <<grph, created_by, modules, num_modules,
                   max_degree, max_net_degree, connected>>

\* ---- Netlist::add_net ----
add_net(net) ==
    /\ node_count(grph) < MaxNodes
    /\ nets' = Append(nets, net)
    /\ grph' = graph_add_node(grph, net)
    /\ num_nets' = Len(nets')
    /\ created_by' = Append(created_by, "add_net")
    /\ calls' = [calls EXCEPT !.add_net = @ + 1]
    /\ last' = [op |-> "add_net", net |-> net, module |-> NoLabel, ret |-> Unit]
    /\ UNCHANGED <<modules, num_modules, max_degree, max_net_degree, connected>>

\* Mutant of both_some: one resolved label is enough.
either_some(net_index, module_index) ==
    net_index # None \/ module_index # None

\* if let (Some(net_index), Some(module_index)) = (net_index, module_index)
both_some(net_index, module_index) ==
    net_index # None /\ module_index # None

\* ---- Netlist::add_edge ----
add_edge(net, module) ==
    LET net_index == find_node(grph.nodes, net)
        module_index == find_node(grph.nodes, module)
    IN  /\ IF both_some(net_index, module_index)
           THEN /\ edge_count(grph) < MaxEdges
                /\ grph' = graph_add_edge(grph, net_index, module_index)
                /\ connected' = connected \cup {<<net, module>>}
           ELSE /\ UNCHANGED <<grph, connected>>
        /\ last' = [op |-> "add_edge", net |-> net, module |-> module, ret |-> Unit]
        /\ UNCHANGED <<modules, nets, num_modules, num_nets,
                       max_degree, max_net_degree, created_by, calls>>

Next ==
    \/ \E module \in Labels : add_module(module)
    \/ \E net \in Labels : add_net(net)
    \/ \E net \in Labels, module \in Labels : add_edge(net, module)

Spec == Init /\ [][Next]_vars

\* ======================= properties =======================

\* The number of graph edges incident to node i.
Degree(i) ==
    Cardinality({k \in DOMAIN grph.edges :
                    grph.edges[k][1] = i \/ grph.edges[k][2] = i})

NodesBy(op) == {i \in DOMAIN grph.nodes : created_by[i] = op}

SetMax(S) == IF S = {} THEN 0 ELSE CHOOSE d \in S : \A e \in S : e <= d

MaxDegreeOf(op) == SetMax({Degree(i) : i \in NodesBy(op)})

Distinct(s) == \A i, j \in DOMAIN s : s[i] = s[j] => i = j

\* The last call was add_edge and, by the lookup the code performs on the
\* graph of state g, at least one of its two labels did not resolve.
Unresolved(l, g) ==
    \/ find_node(g.nodes, l.net) = None
    \/ find_node(g.nodes, l.module) = None

\* C1: at every point num_modules equals the length of modules and the
\* number of add_module calls made so far, and num_nets equals the length of
\* nets and the number of add_net calls made so far (every call succeeds).
C1_Counts ==
    /\ num_modules = Len(modules)
    /\ num_modules = calls.add_module
    /\ num_nets = Len(nets)
    /\ num_nets = calls.add_net

C1_Witness ==
    /\ num_modules = 2
    /\ num_nets = 1
    /\ edge_count(grph) >= 1
    /\ last.op = "add_edge"

\* C2: an add_edge call whose net label is not among the nets, or whose
\* module label is not among the modules, returns MissingEntity to the caller.
C2_MissingEntityReported ==
    (/\ last.op = "add_edge"
     /\ (last.net \notin Range(nets) \/ last.module \notin Range(modules)))
        => last.ret = "MissingEntity"

\* C3: an add_edge call in which at least one label does not resolve leaves
\* the graph (nodes and edges), modules, nets, num_modules and num_nets
\* unchanged.
C3_UnresolvedFrame ==
    [][(last'.op = "add_edge" /\ Unresolved(last', grph))
          => /\ grph' = grph
             /\ modules' = modules
             /\ nets' = nets
             /\ num_modules' = num_modules
             /\ num_nets' = num_nets]_vars

C3_Witness ==
    /\ last.op = "add_edge"
    /\ Unresolved(last, grph)
    /\ last.module \in Range(modules)
    /\ node_count(grph) >= 2
    /\ edge_count(grph) >= 1

\* C4: every label occurs at most once in modules and at most once in nets,
\* and the graph holds at most one module node per label and at most one net
\* node per label.
C4_UniqueLabels ==
    /\ Distinct(modules)
    /\ Distinct(nets)
    /\ \A i, j \in DOMAIN grph.nodes :
          (grph.nodes[i] = grph.nodes[j] /\ created_by[i] = created_by[j])
             => i = j

\* C5: every edge of the graph joins a node created by add_net to a node
\* created by add_module (no module-module edge, net-net edge or self-loop).
C5_Bipartite ==
    \A k \in DOMAIN grph.edges :
        /\ created_by[grph.edges[k][1]] = "add_net"
        /\ created_by[grph.edges[k][2]] = "add_module"

\* C6: the degree of every module node equals the number of distinct nets n
\* for which an add_edge(n, m) call with the module's label m has inserted
\* an edge.
C6_DegreeDistinctNets ==
    \A i \in NodesBy("add_module") :
        Degree(i) = Cardinality({n \in Labels : <<n, grph.nodes[i]>> \in connected})

\* C7: max_degree is the largest number of edges at any module node and
\* max_net_degree the largest number at any net node (0 when there are none).
C7_MaxDegreeCurrent ==
    /\ max_degree = MaxDegreeOf("add_module")
    /\ max_net_degree = MaxDegreeOf("add_net")

\* C8: when the net argument of an add_edge call is the label of both a
\* module and a net, or the module argument is, the inserted edge runs from
\* the node add_net created for the net argument to the node add_module
\* created for the module argument; in particular it is not a self-loop.
C8_NoAliasing ==
    [][(/\ last'.op = "add_edge"
        /\ edge_count(grph') = edge_count(grph) + 1
        /\ \E x \in {last'.net, last'.module} :
              x \in Range(modules) /\ x \in Range(nets))
          => LET e == grph'.edges[edge_count(grph')]
             IN  /\ created_by[e[1]] = "add_net"
                 /\ grph.nodes[e[1]] = last'.net
                 /\ created_by[e[2]] = "add_module"
                 /\ grph.nodes[e[2]] = last'.module
                 /\ e[1] # e[2]]_vars

\* C9: an add_edge call in which both labels resolve raises the edge count
\* by exactly one and leaves the nodes, modules, nets, num_modules and
\* num_nets unchanged.
C9_ResolvedFrame ==
    [][(last'.op = "add_edge" /\ ~Unresolved(last', grph))
          => /\ edge_count(grph') = edge_count(grph) + 1
             /\ grph'.nodes = grph.nodes
             /\ modules' = modules
             /\ nets' = nets
             /\ num_modules' = num_modules
             /\ num_nets' = num_nets]_vars

C9_Witness ==
    /\ last.op = "add_edge"
    /\ ~Unresolved(last, grph)
    /\ last.net \in Range(nets)
    /\ last.module \in Range(modules)
    /\ edge_count(grph) = 2
    /\ node_count(grph) = 3

\* C10: the node count of the graph equals num_modules + num_nets: it is 0
\* for the empty netlist, each add_module and add_net call creates exactly
\* one node and add_edge creates none.
C10_NodeCount ==
    /\ [](node_count(grph) = num_modules + num_nets)
    /\ [][/\ last'.op \in {"add_module", "add_net"}
             => node_count(grph') = node_count(grph) + 1
          /\ last'.op = "add_edge"
             => node_count(grph') = node_count(grph)]_vars

C10_Witness ==
    /\ node_count(grph) = 3
    /\ num_modules = 2
    /\ num_nets = 1
    /\ edge_count(grph) = 2

====
